---- MODULE Spec2Model ----
(***************************************************************************)
(* The inventory ledger of src/inventory_system.py: class InventorySystem, *)
(* its stock_data dictionary, and the JSON file it loads and saves.        *)
(*                                                                         *)
(* Python objects are tagged records [t, i, s, a]: t is the Python type,   *)
(* i the number of an int or bool, s the characters of a str, a the        *)
(* elements of a list or the entries [k, v] of a dict in insertion order.  *)
(* Text is a sequence of one-character strings, so that JSON encoding and  *)
(* decoding work on characters.                                            *)
(***************************************************************************)
EXTENDS Integers, Sequences, FiniteSets, TLC

VARIABLES stock_data, file, last, before, ret, raised, log, inserted, applied

vars == <<stock_data, file, last, before, ret, raised, log, inserted, applied>>

----------------------------------------------------------------------------
(* Bounds of the model. *)

\* Largest absolute quantity an entry may reach through add/remove.
MaxVal == 2
\* Largest absolute quantity passed to add/remove.
MaxQty == 2
\* Largest value of an entry of the maps that are saved and loaded back.
MaxSaved == 11
\* Largest absolute value of the running totals kept per item.
MaxTotal == 4

----------------------------------------------------------------------------
(* Python values. *)

PyInt(n) == [t |-> "int", i |-> n, s |-> <<>>, a |-> <<>>]
PyBool(b) == [t |-> "bool", i |-> IF b THEN 1 ELSE 0, s |-> <<>>, a |-> <<>>]
PyStr(cs) == [t |-> "str", i |-> 0, s |-> cs, a |-> <<>>]
PyNone == [t |-> "NoneType", i |-> 0, s |-> <<>>, a |-> <<>>]
PyList(xs) == [t |-> "list", i |-> 0, s |-> <<>>, a |-> xs]
PyDict(es) == [t |-> "dict", i |-> 0, s |-> <<>>, a |-> es]

\* isinstance(x, str)
IsStr(x) == x.t = "str"
\* isinstance(x, int): bool is a subclass of int
IsInt(x) == x.t \in {"int", "bool"}

\* The item names and arguments the calls are made with.
Apple == <<"a">>
Banana == <<"b">>
Quoted == <<"\"", "\\">>
EmptyName == <<>>
Default == <<"d", "e", "f", "a", "u", "l", "t">>
Ten == <<"t", "e", "n">>

----------------------------------------------------------------------------
(* dict operations on the insertion-ordered entry sequence. *)

Range(f) == {f[x] : x \in DOMAIN f}

Keys(es) == {es[n].k : n \in DOMAIN es}

HasKey(es, k) == \E n \in DOMAIN es : es[n].k = k

IndexOf(es, k) == CHOOSE n \in DOMAIN es : es[n].k = k

\* d[k] for a key that is present
Lookup(es, k) == es[IndexOf(es, k)].v

\* d.get(k, 0)
DictGet(es, k) == IF HasKey(es, k) THEN Lookup(es, k) ELSE PyInt(0)

\* d[k] = v: a present key keeps its place, a new key goes last
DictSet(es, k, v) ==
    IF HasKey(es, k)
    THEN [es EXCEPT ![IndexOf(es, k)].v = v]
    ELSE Append(es, [k |-> k, v |-> v])

\* del d[k]
DictDel(es, k) ==
    LET n == IndexOf(es, k)
    IN  SubSeq(es, 1, n - 1) \o SubSeq(es, n + 1, Len(es))

\* dict(pairs): the pairs are set one after the other
RECURSIVE DictOfPairs(_, _)
DictOfPairs(pairs, acc) ==
    IF pairs = <<>> THEN acc
    ELSE DictOfPairs(Tail(pairs), DictSet(acc, Head(pairs).k, Head(pairs).v))

----------------------------------------------------------------------------
(* json.dumps(obj, indent=4) *)

Digits == <<"0", "1", "2", "3", "4", "5", "6", "7", "8", "9">>

RECURSIVE NatToChars(_)
NatToChars(n) ==
    IF n < 10 THEN <<Digits[n + 1]>>
    ELSE NatToChars(n \div 10) \o <<Digits[(n % 10) + 1]>>

\* int.__repr__
IntToChars(n) == IF n < 0 THEN <<"-">> \o NatToChars(-n) ELSE NatToChars(n)

\* EscapeChar with the quote and the backslash written as they are
EscapeChar_Unescaped(c) == <<c>>

\* one character of a string, as py_encode_basestring_ascii writes it
EscapeChar(c) ==
    CASE c = "\"" -> <<"\\", "\"">>
      [] c = "\\" -> <<"\\", "\\">>
      [] c = "\n" -> <<"\\", "n">>
      [] c = "\t" -> <<"\\", "t">>
      [] c = "\r" -> <<"\\", "r">>
      [] c = "\f" -> <<"\\", "f">>
      [] OTHER -> <<c>>

RECURSIVE EscapeChars(_)
EscapeChars(cs) ==
    IF cs = <<>> THEN <<>> ELSE EscapeChar(Head(cs)) \o EscapeChars(Tail(cs))

EncodeStr(cs) == <<"\"">> \o EscapeChars(cs) \o <<"\"">>

RECURSIVE Spaces(_)
Spaces(n) == IF n = 0 THEN <<>> ELSE <<" ">> \o Spaces(n - 1)

Indent == 4

NewlineIndent(level) == <<"\n">> \o Spaces(Indent * level)

RECURSIVE Encode(_, _)
RECURSIVE EncodeItems(_, _, _)
\* the entries or elements xs of a container, each on its own indented line
EncodeItems(xs, isDict, level) ==
    IF xs = <<>> THEN <<>>
    ELSE NewlineIndent(level)
         \o (IF isDict
             THEN EncodeStr(Head(xs).k) \o <<":", " ">> \o Encode(Head(xs).v, level)
             ELSE Encode(Head(xs), level))
         \o (IF Tail(xs) = <<>> THEN <<>> ELSE <<",">>)
         \o EncodeItems(Tail(xs), isDict, level)

Encode(x, level) ==
    CASE x.t = "int" -> IntToChars(x.i)
      [] x.t = "bool" -> IF x.i = 1 THEN <<"t", "r", "u", "e">>
                         ELSE <<"f", "a", "l", "s", "e">>
      [] x.t = "NoneType" -> <<"n", "u", "l", "l">>
      [] x.t = "str" -> EncodeStr(x.s)
      [] x.t = "list" ->
           IF x.a = <<>> THEN <<"[", "]">>
           ELSE <<"[">> \o EncodeItems(x.a, FALSE, level + 1)
                \o NewlineIndent(level) \o <<"]">>
      [] x.t = "dict" ->
           IF x.a = <<>> THEN <<"{", "}">>
           ELSE <<"{">> \o EncodeItems(x.a, TRUE, level + 1)
                \o NewlineIndent(level) \o <<"}">>

JsonDumps(x) == Encode(x, 0)

----------------------------------------------------------------------------
(* json.loads(text): the scanner of the json module on objects, arrays,    *)
(* strings, integers, true, false and null. The texts of the model hold no *)
(* fraction or exponent, no \b or \u escape and no NaN or Infinity.        *)

Fail == [ok |-> FALSE, v |-> PyNone, pos |-> 0]

Ok(v, pos) == [ok |-> TRUE, v |-> v, pos |-> pos]

\* the character at position i, "" past the end
At(s, i) == IF i >= 1 /\ i <= Len(s) THEN s[i] ELSE ""

Whitespace == {" ", "\t", "\n", "\r"}

RECURSIVE SkipWs(_, _)
SkipWs(s, i) == IF At(s, i) \in Whitespace THEN SkipWs(s, i + 1) ELSE i

Matches(s, i, word) ==
    /\ i + Len(word) - 1 <= Len(s)
    /\ SubSeq(s, i, i + Len(word) - 1) = word

IsDigit(c) == c \in Range(Digits)

DigitVal(c) == (CHOOSE d \in DOMAIN Digits : Digits[d] = c) - 1

\* the characters a backslash escape stands for; <<>> for an invalid escape
Unescape(c) ==
    CASE c = "\"" -> <<"\"">>
      [] c = "\\" -> <<"\\">>
      [] c = "/" -> <<"/">>
      [] c = "n" -> <<"\n">>
      [] c = "t" -> <<"\t">>
      [] c = "r" -> <<"\r">>
      [] c = "f" -> <<"\f">>
      [] OTHER -> <<>>

ControlChars == {"\n", "\t", "\r", "\f"}

\* scanstring: i is the position after the opening quote
RECURSIVE ScanString(_, _, _)
ScanString(s, i, acc) ==
    LET c == At(s, i)
    IN  CASE c = "" -> Fail
          [] c = "\"" -> Ok(PyStr(acc), i + 1)
          [] c = "\\" ->
               IF Unescape(At(s, i + 1)) = <<>> THEN Fail
               ELSE ScanString(s, i + 2, acc \o Unescape(At(s, i + 1)))
          [] c \in ControlChars -> Fail
          [] OTHER -> ScanString(s, i + 1, Append(acc, c))

RECURSIVE ScanDigits(_, _, _)
ScanDigits(s, i, acc) ==
    IF IsDigit(At(s, i)) THEN ScanDigits(s, i + 1, acc * 10 + DigitVal(At(s, i)))
    ELSE [n |-> acc, pos |-> i]

\* NUMBER_RE: -?(0|[1-9][0-9]*), i at the first character of the number
ScanNumber(s, i) ==
    LET neg == At(s, i) = "-"
        j == IF neg THEN i + 1 ELSE i
        d == IF At(s, j) = "0" THEN [n |-> 0, pos |-> j + 1] ELSE ScanDigits(s, j, 0)
    IN  IF ~IsDigit(At(s, j)) THEN Fail
        ELSE Ok(PyInt(IF neg THEN -d.n ELSE d.n), d.pos)

RECURSIVE ScanOnce(_, _)
RECURSIVE ScanMembers(_, _, _)
RECURSIVE ScanElements(_, _, _)

\* JSONObject's loop: i is the position after the opening quote of a key
ScanMembers(s, i, pairs) ==
    LET key == ScanString(s, i, <<>>)
        colon == SkipWs(s, key.pos)
        val == ScanOnce(s, SkipWs(s, colon + 1))
        after == SkipWs(s, val.pos)
        next == SkipWs(s, after + 1)
        all == Append(pairs, [k |-> key.v.s, v |-> val.v])
    IN  IF ~key.ok \/ At(s, colon) # ":" THEN Fail
        ELSE IF ~val.ok THEN Fail
        ELSE IF At(s, after) = "}" THEN Ok(PyDict(DictOfPairs(all, <<>>)), after + 1)
        ELSE IF At(s, after) # "," \/ At(s, next) # "\"" THEN Fail
        ELSE ScanMembers(s, next + 1, all)

\* JSONArray's loop: i is the position of an element
ScanElements(s, i, elems) ==
    LET val == ScanOnce(s, i)
        after == SkipWs(s, val.pos)
        all == Append(elems, val.v)
    IN  IF ~val.ok THEN Fail
        ELSE IF At(s, after) = "]" THEN Ok(PyList(all), after + 1)
        ELSE IF At(s, after) # "," THEN Fail
        ELSE ScanElements(s, SkipWs(s, after + 1), all)

\* scan_once: the value that starts at position i
ScanOnce(s, i) ==
    LET c == At(s, i)
        j == SkipWs(s, i + 1)
    IN  CASE c = "\"" -> ScanString(s, i + 1, <<>>)
          [] c = "{" ->
               IF At(s, j) = "}" THEN Ok(PyDict(<<>>), j + 1)
               ELSE IF At(s, j) # "\"" THEN Fail
               ELSE ScanMembers(s, j + 1, <<>>)
          [] c = "[" ->
               IF At(s, j) = "]" THEN Ok(PyList(<<>>), j + 1)
               ELSE ScanElements(s, j, <<>>)
          [] c = "n" /\ Matches(s, i, <<"n", "u", "l", "l">>) -> Ok(PyNone, i + 4)
          [] c = "t" /\ Matches(s, i, <<"t", "r", "u", "e">>) -> Ok(PyBool(TRUE), i + 4)
          [] c = "f" /\ Matches(s, i, <<"f", "a", "l", "s", "e">>) ->
               Ok(PyBool(FALSE), i + 5)
          [] OTHER -> ScanNumber(s, i)

\* JSONDecoder.decode: one value between whitespace, nothing after it;
\* ok = FALSE stands for json.JSONDecodeError
JsonLoads(text) ==
    LET r == ScanOnce(text, SkipWs(text, 1))
    IN  IF r.ok /\ SkipWs(text, r.pos) = Len(text) + 1 THEN r ELSE Fail

----------------------------------------------------------------------------
(* The methods of InventorySystem as functions of the state they read.     *)
(* Each gives the new stock_data, the exception that leaves the method     *)
(* ("none" when it returns), the returned value and the severity of the    *)
(* log record it emits ("none" when it logs nothing).                      *)

Outcome(sd, exc, value, level) ==
    [stock |-> sd, raised |-> exc, ret |-> value, log |-> level]

\* add_item that stores the quantity passed instead of adding it
add_item_Overwrites(sd, item, qty) ==
    IF ~IsStr(item) \/ item = PyStr(Default) \/ ~IsInt(qty)
    THEN Outcome(sd, "none", PyNone, "warning")
    ELSE Outcome(PyDict(DictSet(sd.a, item.s, PyInt(qty.i))), "none", PyNone, "info")

\* add_item without the test for the sentinel "default"
add_item_NoSentinelCheck(sd, item, qty) ==
    IF ~IsStr(item) \/ ~IsInt(qty)
    THEN Outcome(sd, "none", PyNone, "warning")
    ELSE IF sd.t # "dict"
    THEN Outcome(sd, "AttributeError", PyNone, "none")
    ELSE IF ~IsInt(DictGet(sd.a, item.s))
    THEN Outcome(sd, "TypeError", PyNone, "none")
    ELSE Outcome(PyDict(DictSet(sd.a, item.s, PyInt(DictGet(sd.a, item.s).i + qty.i))),
                 "none", PyNone, "info")

\* InventorySystem.add_item(item, qty)
add_item(sd, item, qty) ==
    IF ~IsStr(item) \/ item = PyStr(Default)
    THEN Outcome(sd, "none", PyNone, "warning")
    ELSE IF ~IsInt(qty)
    THEN Outcome(sd, "none", PyNone, "warning")
    ELSE IF sd.t # "dict"
    THEN Outcome(sd, "AttributeError", PyNone, "none")
    ELSE IF ~IsInt(DictGet(sd.a, item.s))
    THEN Outcome(sd, "TypeError", PyNone, "none")
    ELSE Outcome(PyDict(DictSet(sd.a, item.s, PyInt(DictGet(sd.a, item.s).i + qty.i))),
                 "none", PyNone, "info")

\* remove_item that deletes the entry only below zero
remove_item_DeletesBelowZero(sd, item, qty) ==
    IF ~IsStr(item) \/ ~IsInt(qty) \/ ~HasKey(sd.a, item.s)
    THEN Outcome(sd, "none", PyNone, "warning")
    ELSE IF Lookup(sd.a, item.s).i - qty.i < 0
    THEN Outcome(PyDict(DictDel(sd.a, item.s)), "none", PyNone, "info")
    ELSE Outcome(PyDict(DictSet(sd.a, item.s, PyInt(Lookup(sd.a, item.s).i - qty.i))),
                 "none", PyNone, "none")

\* remove_item that subtracts and never deletes the entry
remove_item_KeepsEntry(sd, item, qty) ==
    IF ~IsStr(item) \/ ~IsInt(qty) \/ ~HasKey(sd.a, item.s)
    THEN Outcome(sd, "none", PyNone, "warning")
    ELSE Outcome(PyDict(DictSet(sd.a, item.s, PyInt(Lookup(sd.a, item.s).i - qty.i))),
                 "none", PyNone, "none")

\* InventorySystem.remove_item(item, qty)
remove_item(sd, item, qty) ==
    IF ~IsStr(item) \/ ~IsInt(qty)
    THEN Outcome(sd, "none", PyNone, "warning")
    ELSE IF sd.t # "dict"
    THEN Outcome(sd, "TypeError", PyNone, "none")
    ELSE IF ~HasKey(sd.a, item.s)
    THEN Outcome(sd, "none", PyNone, "warning")
    ELSE IF ~IsInt(Lookup(sd.a, item.s))
    THEN Outcome(sd, "TypeError", PyNone, "none")
    ELSE IF Lookup(sd.a, item.s).i - qty.i <= 0
    THEN Outcome(PyDict(DictDel(sd.a, item.s)), "none", PyNone, "info")
    ELSE Outcome(PyDict(DictSet(sd.a, item.s, PyInt(Lookup(sd.a, item.s).i - qty.i))),
                 "none", PyNone, "none")

\* InventorySystem.get_qty(item)
get_qty(sd, item) ==
    IF sd.t # "dict"
    THEN Outcome(sd, "AttributeError", PyNone, "none")
    ELSE Outcome(sd, "none",
                 IF IsStr(item) THEN DictGet(sd.a, item.s) ELSE PyInt(0), "none")

\* the comprehension with <= in place of <
RECURSIVE LowOfDict_AtOrBelow(_, _, _)
LowOfDict_AtOrBelow(es, threshold, acc) ==
    IF es = <<>> THEN [raised |-> "none", ret |-> PyList(acc)]
    ELSE LowOfDict_AtOrBelow(Tail(es), threshold,
                             IF Head(es).v.i <= threshold.i
                             THEN Append(acc, PyStr(Head(es).k)) ELSE acc)

\* the list comprehension of check_low_items over a dict: es are the entries
\* still to visit, acc the names collected
RECURSIVE LowOfDict(_, _, _)
LowOfDict(es, threshold, acc) ==
    IF es = <<>> THEN [raised |-> "none", ret |-> PyList(acc)]
    ELSE IF ~IsInt(Head(es).v) THEN [raised |-> "TypeError", ret |-> PyNone]
    ELSE LowOfDict(Tail(es), threshold,
                   IF Head(es).v.i < threshold.i
                   THEN Append(acc, PyStr(Head(es).k)) ELSE acc)

\* the same comprehension over a list: each element is used as an index
RECURSIVE LowOfList(_, _, _, _)
LowOfList(xs, rest, threshold, acc) ==
    IF rest = <<>> THEN [raised |-> "none", ret |-> PyList(acc)]
    ELSE LET e == Head(rest)
             n == IF e.i < 0 THEN e.i + Len(xs) + 1 ELSE e.i + 1
         IN  IF ~IsInt(e) THEN [raised |-> "TypeError", ret |-> PyNone]
             ELSE IF n < 1 \/ n > Len(xs) THEN [raised |-> "IndexError", ret |-> PyNone]
             ELSE IF ~IsInt(xs[n]) THEN [raised |-> "TypeError", ret |-> PyNone]
             ELSE LowOfList(xs, Tail(rest), threshold,
                            IF xs[n].i < threshold.i THEN Append(acc, e) ELSE acc)

\* InventorySystem.check_low_items(threshold)
check_low_items(sd, threshold) ==
    LET r == CASE sd.t = "dict" -> LowOfDict(sd.a, threshold, <<>>)
               [] sd.t = "list" -> LowOfList(sd.a, sd.a, threshold, <<>>)
               [] sd.t = "str" /\ sd.s = <<>> -> [raised |-> "none", ret |-> PyList(<<>>)]
               [] OTHER -> [raised |-> "TypeError", ret |-> PyNone]
    IN  Outcome(sd, r.raised, r.ret, "none")

\* The file at the path, as open() finds it. kind is what open(path, "r")
\* and read() give: no file, a text, a file whose mode denies
\* reading (its bytes are then seen by no method and are left out), or bytes
\* that are not UTF-8. writable is whether open(path, "w") succeeds: the
\* mode of the file, or of its directory when there is no file.
Missing(writable) == [kind |-> "missing", text |-> <<>>, writable |-> writable]
Denied(writable) == [kind |-> "denied", text |-> <<>>, writable |-> writable]
Undecodable(writable) == [kind |-> "undecodable", text |-> <<>>, writable |-> writable]
Text(cs, writable) == [kind |-> "text", text |-> cs, writable |-> writable]

\* The path is a directory: open() raises IsADirectoryError, for reading and
\* for writing.
Directory == [kind |-> "directory", text |-> <<>>, writable |-> FALSE]

\* the modes a file created by open(path, "w") can get from the umask
Modes == [readable : BOOLEAN, writable : BOOLEAN]

\* InventorySystem.load_data(file)
load_data(sd, f) ==
    CASE f.kind = "missing" -> Outcome(PyDict(<<>>), "none", PyNone, "warning")
      [] f.kind = "denied" -> Outcome(sd, "PermissionError", PyNone, "none")
      [] f.kind = "directory" -> Outcome(sd, "IsADirectoryError", PyNone, "none")
      [] f.kind = "undecodable" -> Outcome(sd, "UnicodeDecodeError", PyNone, "none")
      [] f.kind = "text" ->
           LET loaded == JsonLoads(f.text)
           IN  IF loaded.ok
               THEN Outcome(loaded.v, "none", PyNone, "info")
               ELSE Outcome(PyDict(<<>>), "none", PyNone, "error")

\* InventorySystem.save_data(file). open(path, "w") fails when the path is
\* not writable: the error is caught as IOError and the file is left as it
\* was. Otherwise open() truncates the file, or creates it with the mode
\* created, and written is the number of characters of the text that reach
\* it: a write that fails (disk full, file size limit) leaves the characters
\* written so far and is caught as IOError. A file that was there keeps its
\* mode. Gives the outcome and the file afterwards.
save_data(sd, f, written, created) ==
    IF ~f.writable
    THEN [out |-> Outcome(sd, "none", PyNone, "error"), file |-> f]
    ELSE LET text == JsonDumps(sd)
             readable == IF f.kind = "missing" THEN created.readable
                         ELSE f.kind # "denied"
             writable == IF f.kind = "missing" THEN created.writable ELSE TRUE
         IN  [out |-> Outcome(sd, "none", PyNone,
                              IF written < Len(text) THEN "error" ELSE "info"),
              file |-> IF readable
                       THEN Text(SubSeq(text, 1, written), writable)
                       ELSE Denied(writable)]

----------------------------------------------------------------------------
(* The ledger: one InventorySystem and the file at its path.               *)
(*   stock_data  self.stock_data                                           *)
(*   file        the file at the path load_data and save_data are given    *)
(*   last        the last call made: its method and arguments              *)
(*   before      self.stock_data when the last call was made               *)
(*   ret         what the last call returned (PyNone when it raised)       *)
(*   raised      the exception the last call let escape, "none" if none    *)
(*   log         the severity of the log record of the last call           *)
(*   inserted    the keys of the map in the order the calls created them   *)
(*   applied     per item, the sum of the quantities added minus those     *)
(*               removed: over the whole run (total) and since the entry   *)
(*               was last created (since), and whether a call passed a     *)
(*               quantity <= 0; kept by the counted calls only             *)

Call(op, item, qty) == [op |-> op, item |-> item, qty |-> qty]

NotAName == PyInt(123)

DefaultThreshold == 5

\* arguments of the calls on the ledger and its file
Items == {PyStr(Apple), PyStr(Default), NotAName}
Qtys == {PyInt(-1), PyInt(1), PyBool(TRUE), PyStr(Ten)}
Thresholds == {PyInt(1), PyInt(DefaultThreshold)}

\* arguments of the calls on the ledger in memory
MemItems == {PyStr(Apple), PyStr(Banana), PyStr(EmptyName)}
MemQtys == {PyInt(n) : n \in -MaxQty..MaxQty}
MemThresholds == {PyInt(n) : n \in 1..MaxVal} \cup {PyInt(DefaultThreshold)}

\* the files the path may hold when the program starts
Docs ==
    { <<"{">>,
      <<"[", "0", "]">>,
      <<"n", "u", "l", "l">>,
      <<"{", "\"", "a", "\"", ":", " ", "\"", "x", "\"", "}">>,
      <<"{", "\"", "d", "e", "f", "a", "u", "l", "t", "\"", ":", "1", ",",
        "\"", "a", "\"", ":", "0", ",", "\"", "a", "\"", ":", "2", "}">> }
InitFiles ==
    {Directory}
    \cup UNION {{Missing(w), Denied(w), Undecodable(w)} \cup {Text(d, w) : d \in Docs} :
                    w \in BOOLEAN}

CountedNames == {Apple, Banana}

Abs(n) == IF n < 0 THEN -n ELSE n

\* the quantities of the map stay within the bound of the model
InBounds(sd) ==
    sd.t = "dict" =>
        \A n \in DOMAIN sd.a : IsInt(sd.a[n].v) => Abs(sd.a[n].v.i) <= MaxVal

\* the keys of a dict in its iteration order
KeySeq(sd) == IF sd.t = "dict" THEN [n \in DOMAIN sd.a |-> sd.a[n].k] ELSE <<>>

\* the creation order after a call that left the map sd: the keys that are
\* gone are dropped, a key that was not there goes last
InsertedAfter(ins, sd) ==
    SelectSeq(ins, LAMBDA k : k \in Range(KeySeq(sd)))
    \o SelectSeq(KeySeq(sd), LAMBDA k : k \notin Range(ins))

NoTotals ==
    [total |-> [k \in CountedNames |-> 0], since |-> [k \in CountedNames |-> 0],
     nonpositive |-> FALSE]

\* InventorySystem(): an empty map; the path holds any of the files
Init ==
    /\ stock_data = PyDict(<<>>)
    /\ file \in InitFiles
    /\ last = Call("init", PyNone, PyNone)
    /\ before = PyDict(<<>>)
    /\ ret = PyNone
    /\ raised = "none"
    /\ log = "none"
    /\ inserted = <<>>
    /\ applied = NoTotals

\* the call returns or raises with outcome out
Step(out, call) ==
    /\ stock_data' = out.stock
    /\ before' = stock_data
    /\ raised' = out.raised
    /\ ret' = out.ret
    /\ log' = out.log
    /\ last' = call

AddCall(item, qty) ==
    /\ LET out == add_item(stock_data, item, qty)
       IN  InBounds(out.stock) /\ Step(out, Call("add", item, qty))
    /\ inserted' = InsertedAfter(inserted, stock_data')
    /\ UNCHANGED file

RemoveCall(item, qty) ==
    /\ LET out == remove_item(stock_data, item, qty)
       IN  InBounds(out.stock) /\ Step(out, Call("remove", item, qty))
    /\ inserted' = InsertedAfter(inserted, stock_data')
    /\ UNCHANGED file

AddItem(item, qty) == AddCall(item, qty) /\ UNCHANGED applied

RemoveItem(item, qty) == RemoveCall(item, qty) /\ UNCHANGED applied

GetQty(item) ==
    /\ Step(get_qty(stock_data, item), Call("get", item, PyNone))
    /\ UNCHANGED <<file, inserted, applied>>

CheckLowItems(threshold) ==
    /\ Step(check_low_items(stock_data, threshold), Call("check_low", PyNone, threshold))
    /\ UNCHANGED <<file, inserted, applied>>

LoadData ==
    /\ Step(load_data(stock_data, file), Call("load", PyNone, PyNone))
    /\ inserted' = IF stock_data' = stock_data /\ raised' # "none" THEN inserted
                   ELSE KeySeq(stock_data')
    /\ UNCHANGED <<file, applied>>

\* how many characters of the text a save can get into the file: any number
\* up to the whole text once the file is open
Writes(sd, f) == IF f.writable THEN 0..Len(JsonDumps(sd)) ELSE {0}

\* the mode of the file a save has open: the mode the file has, or any mode
\* when the save creates it
Creates(f) ==
    IF f.kind = "missing" /\ f.writable THEN Modes
    ELSE {[readable |-> f.kind # "denied", writable |-> f.writable]}

SaveData(written, created) ==
    /\ LET r == save_data(stock_data, file, written, created)
       IN  Step(r.out, Call("save", PyNone, PyNone)) /\ file' = r.file
    /\ UNCHANGED <<inserted, applied>>

Next ==
    \/ \E item \in Items, qty \in Qtys : AddItem(item, qty)
    \/ \E item \in Items, qty \in Qtys : RemoveItem(item, qty)
    \/ \E item \in Items : GetQty(item)
    \/ \E threshold \in Thresholds : CheckLowItems(threshold)
    \/ LoadData
    \/ \E written \in Writes(stock_data, file), created \in Creates(file) :
           SaveData(written, created)

Spec == Init /\ [][Next]_vars

\* The ledger in memory: no file is read or written.
InitMemory == Init /\ file = Missing(TRUE)

NextMemory ==
    \/ \E item \in MemItems, qty \in MemQtys : AddItem(item, qty)
    \/ \E item \in MemItems, qty \in MemQtys : RemoveItem(item, qty)
    \/ \E item \in MemItems : GetQty(item)
    \/ \E threshold \in MemThresholds : CheckLowItems(threshold)

SpecMemory == InitMemory /\ [][NextMemory]_vars

----------------------------------------------------------------------------
(* Properties of the ledger in memory (SpecMemory) and of the ledger with  *)
(* its file (Spec).                                                        *)

\* sd is a dict whose values are all integers
IntMap(sd) == sd.t = "dict" /\ \A n \in DOMAIN sd.a : sd.a[n].v.t = "int"

\* the names check_low_items returned, as a set
Returned == {ret.a[n].s : n \in DOMAIN ret.a}

\* the place of name k in the creation order
InsertedAt(k) == CHOOSE n \in DOMAIN inserted : inserted[n] = k

\* C1: after any sequence of add and remove calls with a text item and an
\* integer quantity, no entry of the map has a quantity <= 0.
C1_NoEntryAtOrBelowZero ==
    \A n \in DOMAIN stock_data.a : stock_data.a[n].v.i > 0

\* C2: no call lets an exception escape to its caller.
C2_NothingRaised == raised = "none"

\* C5: remove(item, qty) on a present item whose quantity minus qty is <= 0
\* deletes the entry: the item is no key, get_qty gives 0, check_low_items
\* names it for no threshold, and every other entry is as it was.
C5_RemoveDeletesEntry ==
    (/\ last.op = "remove"
     /\ IntMap(before)
     /\ HasKey(before.a, last.item.s)
     /\ Lookup(before.a, last.item.s).i - last.qty.i <= 0)
    => /\ raised = "none"
       /\ ~HasKey(stock_data.a, last.item.s)
       /\ get_qty(stock_data, last.item).ret = PyInt(0)
       /\ \A th \in -(MaxVal + 1)..(MaxVal + 1) \cup {DefaultThreshold} :
              last.item \notin Range(check_low_items(stock_data, PyInt(th)).ret.a)
       /\ Keys(stock_data.a) = Keys(before.a) \ {last.item.s}
       /\ Len(stock_data.a) = Len(before.a) - 1
       /\ \A k \in Keys(stock_data.a) : Lookup(stock_data.a, k) = Lookup(before.a, k)

C5_Witness ==
    /\ last.op = "remove"
    /\ log = "info"
    /\ Len(before.a) = 3
    /\ Lookup(before.a, last.item.s).i - last.qty.i < 0
    /\ Len(stock_data.a) = 2

\* C6: add(item, qty) with the sentinel "default", with an item that is no
\* text, or with a quantity that is no integer returns normally and leaves
\* the map as it was.
C6_RejectedAddChangesNothing ==
    (/\ last.op = "add"
     /\ \/ last.item = PyStr(Default)
        \/ ~IsStr(last.item)
        \/ ~IsInt(last.qty))
    => stock_data = before /\ raised = "none" /\ ret = PyNone

C6_Witness ==
    /\ last.op = "add"
    /\ last.item = PyStr(Default)
    /\ IsInt(last.qty)
    /\ log = "warning"
    /\ stock_data.t = "dict"
    /\ stock_data.a # <<>>

\* C7: load on a path with no file, or with a file of invalid JSON (a text
\* json.loads rejects, or bytes that are no UTF-8 text), leaves the map empty
\* whatever it held, and returns.
C7_FailedLoadEmptiesMap ==
    (/\ last.op = "load"
     /\ \/ file.kind = "missing"
        \/ file.kind = "undecodable"
        \/ file.kind = "text" /\ ~JsonLoads(file.text).ok)
    => stock_data = PyDict(<<>>) /\ raised = "none"

\* C8: on a map of integers check_low_items(threshold) returns exactly the
\* names whose quantity is below threshold, each once, in the order they
\* were created in, and leaves the map as it was.
C8_CheckLowExactInOrder ==
    (last.op = "check_low" /\ IntMap(before))
    => /\ raised = "none"
       /\ stock_data = before
       /\ ret.t = "list"
       /\ \A n \in DOMAIN ret.a : IsStr(ret.a[n])
       /\ Returned = {k \in Keys(before.a) : Lookup(before.a, k).i < last.qty.i}
       /\ Cardinality(Returned) = Len(ret.a)
       /\ \A m, n \in DOMAIN ret.a :
              m < n => InsertedAt(ret.a[m].s) < InsertedAt(ret.a[n].s)

C8_Witness ==
    /\ last.op = "check_low"
    /\ Len(stock_data.a) = 3
    /\ Len(ret.a) = 2
    /\ \E k \in Keys(stock_data.a) : Lookup(stock_data.a, k).i = last.qty.i
    /\ stock_data.a[1].k = Banana

\* C9: every key of the map is a non-empty text other than "default".
C9_KeysAreNames ==
    \A k \in Keys(stock_data.a) : k # EmptyName /\ k # Default

----------------------------------------------------------------------------
(* Calls with a strictly positive quantity only, and no load.              *)

PosItems == {PyStr(Apple), PyStr(Banana), PyStr(EmptyName)}
PosQtys == {PyInt(n) : n \in 1..MaxQty}

NextPositive ==
    \/ \E item \in PosItems, qty \in PosQtys : AddItem(item, qty)
    \/ \E item \in PosItems, qty \in PosQtys : RemoveItem(item, qty)
    \/ \E item \in PosItems : GetQty(item)

SpecPositive == InitMemory /\ [][NextPositive]_vars

\* C10: when add and remove are only called with a text item and a quantity
\* > 0, every entry of the map has a quantity > 0, and get_qty(item) is 0
\* exactly when item is no key of the map.
C10_PositiveCallsPositiveEntries ==
    /\ \A n \in DOMAIN stock_data.a :
           stock_data.a[n].v.t = "int" /\ stock_data.a[n].v.i > 0
    /\ \A item \in PosItems :
           get_qty(stock_data, item).ret = PyInt(0) <=> ~HasKey(stock_data.a, item.s)
    /\ last.op = "get" => (ret = PyInt(0) <=> ~HasKey(stock_data.a, last.item.s))

C10_Witness ==
    /\ last.op = "remove"
    /\ HasKey(before.a, last.item.s)
    /\ ~HasKey(stock_data.a, last.item.s)
    /\ get_qty(stock_data, last.item).ret = PyInt(0)
    /\ Len(stock_data.a) = 2

----------------------------------------------------------------------------
(* Counted calls: the sums of the quantities applied to each item.         *)

SumItems == {PyStr(k) : k \in CountedNames}

\* the sums after a call passed qty and applied delta to item k; present
\* tells whether the call left an entry for k
Tally(k, qty, delta, present) ==
    [total |-> [applied.total EXCEPT ![k] = @ + delta],
     since |-> [applied.since EXCEPT ![k] = IF present THEN @ + delta ELSE 0],
     nonpositive |-> applied.nonpositive \/ qty <= 0]

AddCounted(item, qty) ==
    /\ AddCall(item, qty)
    /\ applied' = Tally(item.s, qty.i, qty.i, TRUE)
    /\ Abs(applied'.total[item.s]) <= MaxTotal

RemoveCounted(item, qty) ==
    /\ RemoveCall(item, qty)
    /\ applied' = IF HasKey(stock_data.a, item.s)
                  THEN Tally(item.s, qty.i, -qty.i, HasKey(stock_data'.a, item.s))
                  ELSE Tally(item.s, qty.i, 0, FALSE)
    /\ Abs(applied'.total[item.s]) <= MaxTotal

NextCounted ==
    \/ \E item \in SumItems, qty \in MemQtys : AddCounted(item, qty)
    \/ \E item \in SumItems, qty \in MemQtys : RemoveCounted(item, qty)
    \/ \E item \in SumItems : GetQty(item)

SpecCounted == InitMemory /\ [][NextCounted]_vars

\* C4 as stated, on the runs whose calls all pass a quantity > 0: after
\* add(item, qty) with qty > 0, get_qty(item) is the sum of all additions
\* minus all subtractions applied to the item over the whole sequence.
C4_SumOverWholeRun ==
    (last.op = "add" /\ last.qty.i > 0 /\ ~applied.nonpositive)
    => get_qty(stock_data, last.item).ret = PyInt(applied.total[last.item.s])

\* C4 as amended: after add(item, qty) with qty > 0, get_qty(item) is the
\* sum of the additions minus the subtractions applied to the item since its
\* entry was last created; a remove that deletes the entry discards the sum.
C4_SumSinceEntryCreated ==
    (last.op = "add" /\ last.qty.i > 0)
    => get_qty(stock_data, last.item).ret = PyInt(applied.since[last.item.s])

C4_Witness ==
    /\ last.op = "add"
    /\ last.qty.i > 0
    /\ applied.total[last.item.s] # applied.since[last.item.s]
    /\ HasKey(before.a, last.item.s)
    /\ get_qty(stock_data, last.item).ret = PyInt(applied.since[last.item.s])

----------------------------------------------------------------------------
(* save_data followed by load_data, from any map of positive integers.     *)

SavedNames == {Apple, Quoted, EmptyName}
SavedValues == {1, MaxSaved - 1, MaxSaved, 10 * MaxSaved}

\* the maps with keys among SavedNames, in any order, and values among
\* SavedValues
SavedMaps ==
    {es \in UNION {[1..n -> [k : SavedNames, v : {PyInt(x) : x \in SavedValues}]] :
                       n \in 0..Cardinality(SavedNames)} :
        \A m, n \in DOMAIN es : m # n => es[m].k # es[n].k}

InitSaved ==
    /\ stock_data \in {PyDict(es) : es \in SavedMaps}
    /\ file \in {Missing(w) : w \in BOOLEAN}
    /\ last = Call("init", PyNone, PyNone)
    /\ before = stock_data
    /\ ret = PyNone
    /\ raised = "none"
    /\ log = "none"
    /\ inserted = KeySeq(stock_data)
    /\ applied = NoTotals

NextSaved ==
    \/ \E written \in Writes(stock_data, file), created \in Creates(file) :
           SaveData(written, created)
    \/ LoadData

SpecSaved == InitSaved /\ [][NextSaved]_vars

\* sd is a dict with text keys and positive integer values
PositiveIntMap(sd) == IntMap(sd) /\ \A n \in DOMAIN sd.a : sd.a[n].v.i > 0

\* the same keys, each with the same integer
SameMap(x, y) ==
    /\ x.t = "dict" /\ y.t = "dict"
    /\ Len(x.a) = Cardinality(Keys(x.a))
    /\ Keys(x.a) = Keys(y.a)
    /\ \A k \in Keys(x.a) : Lookup(x.a, k) = Lookup(y.a, k)

\* C3: a successful save followed by load on the same path leaves a map of
\* positive integers as it was before the save: same keys, same integers;
\* and when the saved file can be read, the load reads it and succeeds.
C3_SaveLoadRoundTrip ==
    [][(/\ last.op = "save"
        /\ log = "info"
        /\ PositiveIntMap(stock_data)
        /\ last'.op = "load")
       => (/\ SameMap(stock_data', stock_data)
           /\ (file.kind = "text" => raised' = "none" /\ log' = "info"))]_vars

C3_Witness ==
    /\ last.op = "load"
    /\ log = "info"
    /\ file.kind = "text"
    /\ file.text = JsonDumps(before)
    /\ Len(before.a) = 3
    /\ \E n \in DOMAIN before.a : before.a[n].v.i >= 10
    /\ SameMap(stock_data, before)

====
